---- MODULE Spec2Model ----
(***************************************************************************)
(* Model of the input-state manager (OpalAppInputManager) and of the      *)
(* event handler of the application that owns it (OpalApp::handle_event)  *)
(* of src/src/lib.rs.                                                     *)
(*                                                                         *)
(* A FastHashMap<K, bool> is a function whose DOMAIN is the set of keys   *)
(* that were inserted; a DVec2 is a pair of integers (half units, so that *)
(* 3.5 is 7); an Option<VirtualKeyCode> is a key code or None.            *)
(*                                                                         *)
(* An f32 is an integer count of units of 2^-23, so that 1.0 is 2^23; a   *)
(* time is a count of units of 2^-23 s.  The f32 operations round their   *)
(* exact result to 24 significant bits, ties to even, as IEEE 754 does.   *)
(***************************************************************************)
EXTENDS Integers, Sequences, FiniteSets, TLC

\* ------------------------------------------------------------------ bounds
MaxDt == 1          \* elapsed time of one tick, in time units: 0..MaxDt
MaxPos == 2         \* the camera stays within MaxPos * Speed of its start
MaxEvents == 3      \* length of the recorded runs of SpecTrace and SpecMove

\* ------------------------------------------------------- program constants
Speed == 10

\* --------------------------------------------------------------------- f32
\* f32::MANTISSA_DIGITS
MANTISSA_DIGITS == 24

\* 1.0
One == 2^23

\* The values the model computes with stay below 2^30 in magnitude
F32Window == 2^29

abs(n) == IF n < 0 THEN 0 - n ELSE n

\* The spacing of the f32 values around a magnitude n >= 0
RECURSIVE ulp_from(_, _)
ulp_from(n, u) ==
    IF n < u * 2^MANTISSA_DIGITS THEN u ELSE ulp_from(n, 2 * u)

ulp(n) == ulp_from(n, 1)

\* Round to nearest, ties to even
f32_round(n) ==
    LET a == abs(n)
        u == ulp(a)
        q == a \div u
        r == a % u
        m == IF 2 * r > u \/ (2 * r = u /\ q % 2 = 1) THEN q + 1 ELSE q
    IN  IF n < 0 THEN 0 - (m * u) ELSE m * u

f32_add(x, y) == f32_round(x + y)

f32_sub(x, y) == f32_round(x - y)

f32_mul(x, y) == f32_round(x * y)

\* ------------------------------------------------------------ input domains
ScanCodes == {1, 17}
KeyCodes == {"Escape", "W"}
None == "None"
ElementStates == {"Pressed", "Released"}
MouseDeltas == {<<7, -4>>, <<-2, 6>>}

\* ------------------------------------------------------------- FastHashMap
EmptyMap == << >>

insert(map, k, v) ==
    [x \in (DOMAIN map) \cup {k} |-> IF x = k THEN v ELSE map[x]]

\* map.get(code): Some(v) when the key is present, None otherwise
get(map, code) ==
    IF code \in DOMAIN map THEN <<"Some", map[code]>> ELSE <<None>>

\* Option::map_or(default, |v| *v)
map_or(opt, default) ==
    IF opt[1] = "Some" THEN opt[2] ELSE default

\* -------------------------------------------------------- OpalAppInputState
DVec2_ZERO == <<0, 0>>

DVec2_new(x, y) == <<x, y>>

\* #[derive(Default)]: two empty maps and the zero vector
OpalAppInputState_default ==
    [keyboard_scancode_state |-> EmptyMap,
     keyboard_keycode_state |-> EmptyMap,
     mouse_delta |-> DVec2_ZERO]

OpalAppInputManager_default ==
    [input_state |-> OpalAppInputState_default,
     prev_input_state |-> OpalAppInputState_default]

\* ------------------------------------------------------ OpalAppInputManager
\* Fault: both arms of the match give true
ElementState_held_always(state) == TRUE

\* match input.state { Pressed => true, Released => false }
ElementState_held(state) ==
    IF state = "Pressed" THEN TRUE ELSE FALSE

\* Fault: push_state copies nothing
push_state_noop(self) == self

\* Fault: push_state moves the current generation out (mem::take) instead of
\* cloning it, which leaves a fresh current generation
push_state_take(self) ==
    [input_state |-> OpalAppInputState_default,
     prev_input_state |-> self.input_state]

push_state(self) ==
    [self EXCEPT !.prev_input_state = self.input_state]

\* Fault: the scan-code insert sits inside the is_some() test as well
handle_keyboard_input_resolved_only(self, ki) ==
    IF ki.virtual_keycode # None
    THEN [self EXCEPT
            !.input_state.keyboard_scancode_state =
                insert(@, ki.scancode, ki.state = "Pressed"),
            !.input_state.keyboard_keycode_state =
                insert(@, ki.virtual_keycode, ki.state = "Pressed")]
    ELSE self

\* Fault: a key-up leaves the key code held while another scan code is held
handle_keyboard_input_any_scancode(self, ki) ==
    LET s1 == [self EXCEPT !.input_state.keyboard_scancode_state =
                   insert(@, ki.scancode, ElementState_held(ki.state))]
        scancodes == s1.input_state.keyboard_scancode_state
    IN  IF ki.virtual_keycode # None
        THEN [s1 EXCEPT !.input_state.keyboard_keycode_state =
                  insert(@, ki.virtual_keycode,
                         \/ ElementState_held(ki.state)
                         \/ \E sc \in DOMAIN scancodes : scancodes[sc])]
        ELSE s1

\* Fault: a key-down for a key whose flag is already true clears the flag
handle_keyboard_input_toggle(self, ki) ==
    LET s1 == [self EXCEPT !.input_state.keyboard_scancode_state =
                   insert(@, ki.scancode, ElementState_held(ki.state))]
    IN  IF ki.virtual_keycode # None
        THEN [s1 EXCEPT !.input_state.keyboard_keycode_state =
                  insert(@, ki.virtual_keycode,
                         /\ ElementState_held(ki.state)
                         /\ ~map_or(get(@, ki.virtual_keycode), FALSE))]
        ELSE s1

handle_keyboard_input(self, ki) ==
    LET s1 == [self EXCEPT !.input_state.keyboard_scancode_state =
                   insert(@, ki.scancode, ElementState_held(ki.state))]
    IN  IF ki.virtual_keycode # None
        THEN [s1 EXCEPT !.input_state.keyboard_keycode_state =
                  insert(@, ki.virtual_keycode, ElementState_held(ki.state))]
        ELSE s1

\* Fault: the delta is written to both generations
handle_mouse_motion_both(self, delta) ==
    [self EXCEPT !.input_state.mouse_delta = DVec2_new(delta[1], delta[2]),
                 !.prev_input_state.mouse_delta = DVec2_new(delta[1], delta[2])]

\* Fault: the delta is added to the stored one (+= instead of =)
handle_mouse_motion_accumulate(self, delta) ==
    [self EXCEPT !.input_state.mouse_delta =
        DVec2_new(@[1] + delta[1], @[2] + delta[2])]

handle_mouse_motion(self, delta) ==
    [self EXCEPT !.input_state.mouse_delta = DVec2_new(delta[1], delta[2])]

handle_event(self, event) ==
    CASE event.type = "KeyboardInput" -> handle_keyboard_input(self, event.input)
      [] event.type = "MouseMotion" -> handle_mouse_motion(self, event.delta)
      [] OTHER -> self

\* Fault: map_or(true, ..), an absent key reads as held
is_pressed_absent_true(map, code) ==
    map_or(get(map, code), TRUE)

is_pressed(map, code) ==
    map_or(get(map, code), FALSE)

\* Fault: || in place of &&
is_just_pressed_either(prev_map, map, code) ==
    is_pressed(map, code) \/ ~is_pressed(prev_map, code)

is_just_pressed(prev_map, map, code) ==
    is_pressed(map, code) /\ ~is_pressed(prev_map, code)

\* Fault: a key counts as just released whenever it is not held now
is_just_released_not_held(prev_map, map, code) ==
    ~is_pressed(map, code)

\* Fault: the two maps are passed on in the order received
is_just_released_unswapped(prev_map, map, code) ==
    is_just_pressed(prev_map, map, code)

is_just_released(prev_map, map, code) ==
    is_just_pressed(map, prev_map, code)

\* Fault: the lookup is entry(code).or_insert(false), which stores false
\* for a key code that is absent
is_keycode_down_inserting(self, code) ==
    [ret |-> map_or(get(self.input_state.keyboard_keycode_state, code), FALSE),
     self |-> IF code \in DOMAIN self.input_state.keyboard_keycode_state
              THEN self
              ELSE [self EXCEPT !.input_state.keyboard_keycode_state =
                       insert(@, code, FALSE)]]

\* Fault: is_keycode_down answers as is_keycode_just_pressed does
is_keycode_down_edge(self, code) ==
    [ret |-> is_just_pressed(self.prev_input_state.keyboard_keycode_state,
                             self.input_state.keyboard_keycode_state, code),
     self |-> self]

\* The three public queries take &mut self: each yields the value returned
\* and the manager as the call leaves it.
is_keycode_down(self, code) ==
    [ret |-> is_pressed(self.input_state.keyboard_keycode_state, code),
     self |-> self]

\* Fault: the query consumes the edge, copying the key's flag to the
\* previous generation
is_keycode_just_pressed_consuming(self, code) ==
    [ret |-> is_just_pressed(self.prev_input_state.keyboard_keycode_state,
                             self.input_state.keyboard_keycode_state, code),
     self |-> [self EXCEPT !.prev_input_state.keyboard_keycode_state =
                  insert(@, code,
                         is_pressed(self.input_state.keyboard_keycode_state, code))]]

is_keycode_just_pressed(self, code) ==
    [ret |-> is_just_pressed(self.prev_input_state.keyboard_keycode_state,
                             self.input_state.keyboard_keycode_state, code),
     self |-> self]

is_keycode_just_released(self, code) ==
    [ret |-> is_just_released(self.prev_input_state.keyboard_keycode_state,
                              self.input_state.keyboard_keycode_state, code),
     self |-> self]

\* ------------------------------------------------------------------ events
KeyboardInputEvents ==
    {[type |-> "KeyboardInput",
      input |-> [scancode |-> sc, state |-> st, virtual_keycode |-> vk]] :
        sc \in ScanCodes, st \in ElementStates, vk \in KeyCodes \cup {None}}

MouseMotionEvents ==
    {[type |-> "MouseMotion", delta |-> d] : d \in MouseDeltas}

OtherEvents ==
    {[type |-> t] : t \in {"CloseRequested", "Resized", "RedrawRequested",
                           "MainEventsCleared"}}

Events == KeyboardInputEvents \cup MouseMotionEvents \cup OtherEvents

\* ------------------------------------------------------------------- state
VARIABLES
    input,          \* render_state.input : OpalAppInputManager
    camera_pos,     \* render_state.camera_pos
    camera_pitch,   \* render_state.camera_pitch
    camera_yaw,     \* render_state.camera_yaw
    control_flow,   \* the last request made through control_flow
    recorded,       \* the key codes a keyboard event has carried so far
    last,           \* the call handled last, as Noted describes it
    trace           \* the calls handled so far; empty when none is kept

vars == <<input, camera_pos, camera_pitch, camera_yaw, control_flow,
          recorded, last, trace>>

\* What last and trace hold once setup() has run and no event has arrived
Setup ==
    [event |-> [type |-> "setup"], pushed |-> FALSE, delta_time |-> 0,
     calls |-> << >>, tap |-> FALSE]

\* setup(), lines 293-307.  camera_pos is (3, 3, -5) plus the multiples held
\* in forward, side and up of the vectors of lines 389-391, which are kept as
\* exact coefficients, plus what the Vec3A::new(0.0, velocity, 0.0) of lines
\* 410 and 414 has added to the second component, which is kept in y as the
\* f32 that the code stores while forward, side and up are zero.  Pitch and
\* yaw are in hundredths of a radian.
Init ==
    /\ input = OpalAppInputManager_default
    /\ camera_pos = [forward |-> 0, side |-> 0, up |-> 0, y |-> 3 * One]
    /\ camera_pitch = 55
    /\ camera_yaw = -50
    /\ control_flow = "Poll"
    /\ recorded = {}
    /\ last = Setup
    /\ trace = << >>

\* The event loop delivers events until a handler has requested Exit.
Running == control_flow # "Exit"

\* camera_pos += forward * f + side * s + Vec3A::new(0.0, y, 0.0)
camera_add(pos, f, s, y) ==
    [forward |-> pos.forward + f, side |-> pos.side + s, up |-> pos.up,
     y |-> f32_add(pos.y, y)]

\* A run whose trace is kept ends with the trace; any other run stays
\* within MaxPos * Speed of the start
InRange(pos) ==
    /\ trace = << >> =>
          /\ pos.forward \in (0 - MaxPos * Speed)..(MaxPos * Speed)
          /\ pos.side \in (0 - MaxPos * Speed)..(MaxPos * Speed)
    /\ pos.y \in (0 - F32Window)..F32Window

\* Fault: the E and C branches move along up (the lines 409 and 413 that the
\* code has commented out) instead of along the world vertical axis
move_camera_along_up(self, pos, velocity) ==
    LET qW == is_keycode_down(self, "W")
        p1 == IF qW.ret THEN camera_add(pos, 0 - velocity, 0, 0) ELSE pos
        qS == is_keycode_down(qW.self, "S")
        p2 == IF qS.ret THEN camera_add(p1, velocity, 0, 0) ELSE p1
        qA == is_keycode_down(qS.self, "A")
        p3 == IF qA.ret THEN camera_add(p2, 0, velocity, 0) ELSE p2
        qD == is_keycode_down(qA.self, "D")
        p4 == IF qD.ret THEN camera_add(p3, 0, 0 - velocity, 0) ELSE p3
        qE == is_keycode_down(qD.self, "E")
        p5 == IF qE.ret THEN [p4 EXCEPT !.up = @ + velocity] ELSE p4
        qC == is_keycode_down(qE.self, "C")
        p6 == IF qC.ret THEN [p5 EXCEPT !.up = @ - velocity] ELSE p5
    IN  [self |-> qC.self, pos |-> p6]

\* Fault: the W branch adds forward * velocity (+= instead of -=)
move_camera_w_adds(self, pos, velocity) ==
    LET qW == is_keycode_down(self, "W")
        p1 == IF qW.ret THEN camera_add(pos, velocity, 0, 0) ELSE pos
        qS == is_keycode_down(qW.self, "S")
        p2 == IF qS.ret THEN camera_add(p1, velocity, 0, 0) ELSE p1
        qA == is_keycode_down(qS.self, "A")
        p3 == IF qA.ret THEN camera_add(p2, 0, velocity, 0) ELSE p2
        qD == is_keycode_down(qA.self, "D")
        p4 == IF qD.ret THEN camera_add(p3, 0, 0 - velocity, 0) ELSE p3
        qE == is_keycode_down(qD.self, "E")
        p5 == IF qE.ret THEN camera_add(p4, 0, 0, velocity) ELSE p4
        qC == is_keycode_down(qE.self, "C")
        p6 == IF qC.ret THEN camera_add(p5, 0, 0, 0 - velocity) ELSE p5
    IN  [self |-> qC.self, pos |-> p6]

\* The movement branches of the tick: six queries, each followed by its move
move_camera(self, pos, velocity) ==
    LET qW == is_keycode_down(self, "W")
        p1 == IF qW.ret THEN camera_add(pos, 0 - velocity, 0, 0) ELSE pos
        qS == is_keycode_down(qW.self, "S")
        p2 == IF qS.ret THEN camera_add(p1, velocity, 0, 0) ELSE p1
        qA == is_keycode_down(qS.self, "A")
        p3 == IF qA.ret THEN camera_add(p2, 0, velocity, 0) ELSE p2
        qD == is_keycode_down(qA.self, "D")
        p4 == IF qD.ret THEN camera_add(p3, 0, 0 - velocity, 0) ELSE p3
        qE == is_keycode_down(qD.self, "E")
        p5 == IF qE.ret THEN camera_add(p4, 0, 0, velocity) ELSE p4
        qC == is_keycode_down(qE.self, "C")
        p6 == IF qC.ret THEN camera_add(p5, 0, 0, 0 - velocity) ELSE p5
    IN  [self |-> qC.self, pos |-> p6]

\* Notes the call just handled: its event, whether it ran push_state, the
\* elapsed time it measured, the calls it made on the input manager, in
\* order, and whether it is the key-up of a tap: a key-up for the key code
\* whose key-down was the call before.  A kept trace holds at most MaxEvents
\* events.
Noted(op) ==
    /\ last' = op
    /\ Len(trace) <= MaxEvents
    /\ trace' = IF trace = << >> THEN trace ELSE Append(trace, op)

\* Every handler passes its event to the input manager first, line 329
Handled(event, pushed) ==
    Noted([event |-> event, pushed |-> pushed, delta_time |-> 0,
           calls |-> <<"handle_event">>, tap |-> FALSE])

\* OpalApp::handle_event for a WindowEvent::KeyboardInput
KeyboardInput(event) ==
    /\ Running
    /\ input' = handle_event(input, event)
    /\ recorded' = IF event.input.virtual_keycode # None
                   THEN recorded \cup {event.input.virtual_keycode}
                   ELSE recorded
    /\ Noted([event |-> event, pushed |-> FALSE, delta_time |-> 0,
              calls |-> <<"handle_event">>,
              tap |-> /\ event.input.virtual_keycode # None
                      /\ event.input.state = "Released"
                      /\ last.event.type = "KeyboardInput"
                      /\ last.event.input.state = "Pressed"
                      /\ last.event.input.virtual_keycode =
                            event.input.virtual_keycode])
    /\ UNCHANGED <<camera_pos, camera_pitch, camera_yaw, control_flow>>

\* OpalApp::handle_event for a DeviceEvent::MouseMotion
MouseMotion(event) ==
    /\ Running
    /\ input' = handle_event(input, event)
    /\ Handled(event, FALSE)
    /\ UNCHANGED <<camera_pos, camera_pitch, camera_yaw, control_flow, recorded>>

\* OpalApp::handle_event for WindowEvent::CloseRequested
CloseRequested ==
    /\ Running
    /\ input' = handle_event(input, [type |-> "CloseRequested"])
    /\ control_flow' = "Exit"
    /\ Handled([type |-> "CloseRequested"], FALSE)
    /\ UNCHANGED <<camera_pos, camera_pitch, camera_yaw, recorded>>

\* OpalApp::handle_event for WindowEvent::Resized
Resized ==
    /\ Running
    /\ input' = handle_event(input, [type |-> "Resized"])
    /\ Handled([type |-> "Resized"], FALSE)
    /\ UNCHANGED <<camera_pos, camera_pitch, camera_yaw, control_flow, recorded>>

\* OpalApp::handle_event for Event::RedrawRequested: reads the camera, draws
RedrawRequested ==
    /\ Running
    /\ input' = handle_event(input, [type |-> "RedrawRequested"])
    /\ control_flow' = "Poll"
    /\ Handled([type |-> "RedrawRequested"], FALSE)
    /\ UNCHANGED <<camera_pos, camera_pitch, camera_yaw, recorded>>

\* Fault: push_state runs first, before the tick's queries
MainEventsCleared_push_first(delta_time) ==
    /\ Running
    /\ LET forwarded == handle_event(input, [type |-> "MainEventsCleared"])
           advanced == push_state(forwarded)
           escape == is_keycode_just_pressed(advanced, "Escape")
           velocity == f32_mul(Speed, delta_time)
           moved == move_camera(escape.self, camera_pos, velocity)
       IN  IF escape.ret
           THEN /\ control_flow' = "Exit"
                /\ input' = escape.self
                /\ camera_pos' = camera_pos
                /\ Noted([event |-> [type |-> "MainEventsCleared"],
                          pushed |-> TRUE, delta_time |-> delta_time,
                          calls |-> <<"handle_event", "push_state",
                                      "is_keycode_just_pressed">>,
                          tap |-> FALSE])
           ELSE /\ InRange(moved.pos)
                /\ camera_pos' = moved.pos
                /\ input' = moved.self
                /\ control_flow' = control_flow
                /\ Noted([event |-> [type |-> "MainEventsCleared"],
                          pushed |-> TRUE, delta_time |-> delta_time,
                          calls |-> <<"handle_event", "push_state",
                                      "is_keycode_just_pressed",
                                      "is_keycode_down", "is_keycode_down",
                                      "is_keycode_down", "is_keycode_down",
                                      "is_keycode_down", "is_keycode_down">>,
                          tap |-> FALSE])
    /\ UNCHANGED <<camera_pitch, camera_yaw, recorded>>

\* OpalApp::handle_event for Event::MainEventsCleared, the logic tick
MainEventsCleared(delta_time) ==
    /\ Running
    /\ LET forwarded == handle_event(input, [type |-> "MainEventsCleared"])
           escape == is_keycode_just_pressed(forwarded, "Escape")
           velocity == f32_mul(Speed, delta_time)
           moved == move_camera(escape.self, camera_pos, velocity)
       IN  IF escape.ret
           THEN /\ control_flow' = "Exit"
                /\ input' = escape.self
                /\ camera_pos' = camera_pos
                /\ Noted([event |-> [type |-> "MainEventsCleared"],
                          pushed |-> FALSE, delta_time |-> delta_time,
                          calls |-> <<"handle_event",
                                      "is_keycode_just_pressed">>,
                          tap |-> FALSE])
           ELSE /\ InRange(moved.pos)
                /\ camera_pos' = moved.pos
                /\ input' = push_state(moved.self)
                /\ control_flow' = control_flow
                /\ Noted([event |-> [type |-> "MainEventsCleared"],
                          pushed |-> TRUE, delta_time |-> delta_time,
                          calls |-> <<"handle_event",
                                      "is_keycode_just_pressed",
                                      "is_keycode_down", "is_keycode_down",
                                      "is_keycode_down", "is_keycode_down",
                                      "is_keycode_down", "is_keycode_down",
                                      "push_state">>,
                          tap |-> FALSE])
    /\ UNCHANGED <<camera_pitch, camera_yaw, recorded>>

Next ==
    \/ \E event \in KeyboardInputEvents : KeyboardInput(event)
    \/ \E event \in MouseMotionEvents : MouseMotion(event)
    \/ CloseRequested
    \/ Resized
    \/ RedrawRequested
    \/ \E delta_time \in 0..MaxDt : MainEventsCleared(delta_time)

\* Any run of the application; no trace is kept
Spec == Init /\ [][Next]_vars

\* The runs of at most MaxEvents events after setup(), each kept in trace
InitTrace ==
    /\ input = OpalAppInputManager_default
    /\ camera_pos = [forward |-> 0, side |-> 0, up |-> 0, y |-> 3 * One]
    /\ camera_pitch = 55
    /\ camera_yaw = -50
    /\ control_flow = "Poll"
    /\ recorded = {}
    /\ last = Setup
    /\ trace = <<Setup>>

SpecTrace == InitTrace /\ [][Next]_vars

\* The key codes the tick queries, lines 374-415, each with the scan code of
\* its key
ScanCodeOf ==
    [Escape |-> 1, W |-> 17, E |-> 18, A |-> 30, S |-> 31, D |-> 32, C |-> 46]

QueriedKeyEvents ==
    {[type |-> "KeyboardInput",
      input |-> [scancode |-> ScanCodeOf[vk], state |-> st,
                 virtual_keycode |-> vk]] :
        vk \in DOMAIN ScanCodeOf, st \in ElementStates}

\* Elapsed times of a tick: 0..MaxDt units, and 838861 units (0.100000024 s)
FrameTimes == (0..MaxDt) \cup {838861}

NextMove ==
    \/ \E event \in QueriedKeyEvents : KeyboardInput(event)
    \/ \E event \in MouseMotionEvents : MouseMotion(event)
    \/ CloseRequested
    \/ Resized
    \/ RedrawRequested
    \/ \E delta_time \in FrameTimes : MainEventsCleared(delta_time)

\* The runs of at most MaxEvents events after setup() on the keys the tick
\* queries, each kept in trace
SpecMove == InitTrace /\ [][NextMove]_vars

\* ================================================================= claims
cur == input.input_state
prev == input.prev_input_state

\* The flag stored for k in one generation's map is true
Held(map, k) == k \in DOMAIN map /\ map[k] = TRUE

Down(self, k) == is_keycode_down(self, k).ret
JustPressed(self, k) == is_keycode_just_pressed(self, k).ret
JustReleased(self, k) == is_keycode_just_released(self, k).ret

IsKey(op, k, state) ==
    /\ op.event.type = "KeyboardInput"
    /\ op.event.input.virtual_keycode = k
    /\ op.event.input.state = state

IsKeyFor(op, k) == IsKey(op, k, "Pressed") \/ IsKey(op, k, "Released")

IsMotion(op) == op.event.type = "MouseMotion"

\* op is a tick that reached push_state
IsAdvance(op) == op.event.type = "MainEventsCleared" /\ op.pushed

\* op is a tick that returned at the Escape check
IsExitTick(op) == op.event.type = "MainEventsCleared" /\ ~op.pushed

\* This step is a tick that runs push_state (every action notes its call)
AdvanceStep == IsAdvance(last')

IsTick(op) == op.event.type = "MainEventsCleared"

\* The key codes of the six movement branches, lines 395-415
MovementKeys == {"W", "S", "A", "D", "E", "C"}

\* The velocity a tick computed from the elapsed time it measured, line 393
velocity_of(op) == f32_mul(Speed, op.delta_time)

\* k is the only movement key held
OnlyDown(self, k) ==
    /\ Down(self, k)
    /\ \A other \in MovementKeys \ {k} : ~Down(self, other)

NoneDown(self) == \A k \in MovementKeys : ~Down(self, k)

\* ---------------------------------------------------------------------- C1
\* C1: in every reachable state and for every key code k,
\* is_keycode_just_released(k) returns true exactly when k's flag is true in
\* the previous generation and not true in the current generation.
C1_JustReleasedIff ==
    \A k \in KeyCodes :
        JustReleased(input, k) <=>
            (Held(prev.keyboard_keycode_state, k)
             /\ ~Held(cur.keyboard_keycode_state, k))

\* A key-up for a key held at the last advance has just been handled.
C1_Witness ==
    \E k \in KeyCodes :
        /\ IsKey(last, k, "Released")
        /\ Held(prev.keyboard_keycode_state, k)
        /\ JustReleased(input, k)

\* ---------------------------------------------------------------------- C2
\* C2: in every reachable state and for every key code k,
\* is_keycode_just_pressed(k) returns true exactly when k's flag is true in
\* the current generation and not true in the previous one; the call leaves
\* the manager as it found it, so a second call returns the same value; and
\* after the tick's own Escape query returned true (the tick then returns
\* before push_state) the query still returns true.
C2_JustPressedIff ==
    /\ \A k \in KeyCodes :
          LET q1 == is_keycode_just_pressed(input, k)
              q2 == is_keycode_just_pressed(q1.self, k)
          IN  /\ q1.ret <=> (Held(cur.keyboard_keycode_state, k)
                             /\ ~Held(prev.keyboard_keycode_state, k))
              /\ q1.self = input
              /\ q2.ret = q1.ret
              /\ q2.self = input
    /\ IsExitTick(last) => JustPressed(input, "Escape")

\* The tick has queried Escape, got true and returned.
C2_Witness ==
    /\ IsExitTick(last)
    /\ control_flow = "Exit"
    /\ JustPressed(input, "Escape")

\* ---------------------------------------------------------------------- C3
\* C3: after a tick that ran push_state, the mouse delta of the current
\* generation is (0, 0).
C3_DeltaZeroAfterAdvance ==
    IsAdvance(last) => cur.mouse_delta = DVec2_ZERO

\* ---------------------------------------------------------------------- C4
\* C4: for every key code k, (a) a key-down for k handled while k is held in
\* neither generation makes is_down(k) and is_just_pressed(k) true; (b) both
\* stay true over every step that is neither an advance nor a key event for
\* k; (c) an advance taken while k is down leaves is_down(k) true and makes
\* is_just_pressed(k) false; (d) from then on every step that is not a key
\* event for k, further advances included, keeps is_down(k) true and
\* is_just_pressed(k) false.
C4_PressEdge ==
    [][\A k \in KeyCodes :
        /\ (IsKey(last', k, "Pressed")
            /\ ~Held(cur.keyboard_keycode_state, k)
            /\ ~Held(prev.keyboard_keycode_state, k))
           => (Down(input', k) /\ JustPressed(input', k))
        /\ (Down(input, k) /\ JustPressed(input, k)
            /\ ~AdvanceStep /\ ~IsKeyFor(last', k))
           => (Down(input', k) /\ JustPressed(input', k))
        /\ (AdvanceStep /\ Down(input, k))
           => (Down(input', k) /\ ~JustPressed(input', k))
        /\ (Down(input, k) /\ ~JustPressed(input, k) /\ ~IsKeyFor(last', k))
           => (Down(input', k) /\ ~JustPressed(input', k))
      ]_vars

\* A key pressed in an earlier frame is still down after an advance, and no
\* longer just pressed.
C4_Witness ==
    \E k \in KeyCodes :
        /\ IsAdvance(last)
        /\ k \in recorded
        /\ Down(input, k)
        /\ ~JustPressed(input, k)

\* ---------------------------------------------------------------------- C5
\* C5: for every key code k, when the last three calls handled are a
\* key-down for k, a tick that ran push_state and a key-up for k, then
\* is_just_released(k) is true and is_down(k) is false.
C5_ReleaseAfterAdvance ==
    \A k \in KeyCodes :
        LET n == Len(trace)
        IN  (/\ n >= 3
             /\ IsKey(trace[n - 2], k, "Pressed")
             /\ IsAdvance(trace[n - 1])
             /\ IsKey(trace[n], k, "Released"))
            => (JustReleased(input, k) /\ ~Down(input, k))

\* The run key-down(k), tick, key-up(k) has been handled.
C5_Witness ==
    \E k \in KeyCodes :
        LET n == Len(trace)
        IN  /\ n >= 3
            /\ IsKey(trace[n - 2], k, "Pressed")
            /\ IsAdvance(trace[n - 1])
            /\ IsKey(trace[n], k, "Released")
            /\ JustReleased(input, k)

\* ---------------------------------------------------------------------- C6
\* The manager with every absent key code stored as false, in both
\* generations
WithExplicitFalse(self) ==
    LET fill(map) == [k \in KeyCodes |-> IF k \in DOMAIN map THEN map[k] ELSE FALSE]
    IN  [self EXCEPT
            !.input_state.keyboard_keycode_state = fill(@),
            !.prev_input_state.keyboard_keycode_state = fill(@)]

\* C6: in every reachable state, for every key code k that no keyboard
\* event has carried, is_down(k), is_just_pressed(k) and is_just_released(k)
\* are false; and for every key code the three queries return what they
\* return on the manager in which each absent key is stored as false.
C6_AbsentIsNotHeld ==
    \A k \in KeyCodes :
        /\ k \notin recorded =>
              (~Down(input, k) /\ ~JustPressed(input, k) /\ ~JustReleased(input, k))
        /\ Down(input, k) = Down(WithExplicitFalse(input), k)
        /\ JustPressed(input, k) = JustPressed(WithExplicitFalse(input), k)
        /\ JustReleased(input, k) = JustReleased(WithExplicitFalse(input), k)

\* A key-up has just been handled for a key code that is now stored as
\* false in the current generation and absent from the previous one, while
\* another key code was never recorded and is absent from both.
C6_Witness ==
    \E k1, k2 \in KeyCodes :
        /\ k1 \notin recorded
        /\ k1 \notin DOMAIN cur.keyboard_keycode_state
        /\ k2 \in DOMAIN cur.keyboard_keycode_state
        /\ cur.keyboard_keycode_state[k2] = FALSE
        /\ k2 \notin DOMAIN prev.keyboard_keycode_state
        /\ IsKey(last, k2, "Released")

\* ---------------------------------------------------------------------- C7
\* C7: a tick that runs push_state leaves the previous generation equal to
\* the current generation as it was when the tick began, and leaves the
\* scan-code and keycode maps of the current generation unchanged.
C7_AdvanceCopies ==
    [][AdvanceStep =>
         /\ prev' = cur
         /\ cur'.keyboard_scancode_state = cur.keyboard_scancode_state
         /\ cur'.keyboard_keycode_state = cur.keyboard_keycode_state
      ]_vars

\* An advance has run with a key held: it is held in both generations.
C7_Witness ==
    /\ IsAdvance(last)
    /\ prev = cur
    /\ \E k \in KeyCodes : Held(cur.keyboard_keycode_state, k)
    /\ \E sc \in ScanCodes : Held(cur.keyboard_scancode_state, sc)

\* ---------------------------------------------------------------------- C8
\* C8: in every reachable state handle_event leaves the previous generation
\* unchanged for every event; and a step that changes the previous
\* generation is a tick that runs push_state.
C8_EventsKeepPrevious ==
    /\ [](\A event \in Events :
            handle_event(input, event).prev_input_state = prev)
    /\ [][prev' # prev => AdvanceStep]_vars

\* After an advance that copied a non-zero delta, a motion event has changed
\* the current generation only.
C8_Witness ==
    /\ IsMotion(last)
    /\ prev.mouse_delta # DVec2_ZERO
    /\ cur.mouse_delta # prev.mouse_delta
    /\ cur.mouse_delta = last.event.delta

\* ---------------------------------------------------------------------- C9
\* C9: a step that handles a keyboard event sets the current generation's
\* scan-code entry to true for Pressed and false for Released and leaves the
\* other scan-code entries alone; when the event has no virtual key code the
\* keycode map is unchanged, otherwise the entry of its key code is set to
\* the same value and the other keycode entries are left alone.
C9_KeyEventEntries ==
    [][last'.event.type = "KeyboardInput" =>
           LET ki == last'.event.input
               sc1 == cur'.keyboard_scancode_state
               kc1 == cur'.keyboard_keycode_state
           IN  /\ ki.scancode \in DOMAIN sc1
               /\ sc1[ki.scancode] = (ki.state = "Pressed")
               /\ \A x \in ScanCodes \ {ki.scancode} :
                     /\ x \in DOMAIN sc1 <=> x \in DOMAIN cur.keyboard_scancode_state
                     /\ x \in DOMAIN sc1 => sc1[x] = cur.keyboard_scancode_state[x]
               /\ ki.virtual_keycode = None => kc1 = cur.keyboard_keycode_state
               /\ ki.virtual_keycode # None =>
                     /\ ki.virtual_keycode \in DOMAIN kc1
                     /\ kc1[ki.virtual_keycode] = sc1[ki.scancode]
                     /\ \A y \in KeyCodes \ {ki.virtual_keycode} :
                           /\ y \in DOMAIN kc1 <=> y \in DOMAIN cur.keyboard_keycode_state
                           /\ y \in DOMAIN kc1 => kc1[y] = cur.keyboard_keycode_state[y]
      ]_vars

\* A key-down without a virtual key code has been handled: its scan code is
\* held and the keycode map is still empty.
C9_Witness ==
    /\ last.event.type = "KeyboardInput"
    /\ last.event.input.virtual_keycode = None
    /\ last.event.input.state = "Pressed"
    /\ Held(cur.keyboard_scancode_state, last.event.input.scancode)
    /\ cur.keyboard_keycode_state = EmptyMap

\* --------------------------------------------------------------------- C10
\* C10: whenever the call handled last is a pointer-motion event, the mouse
\* delta of the current generation is that event's delta, whatever was
\* stored before.
C10_MotionOverwrites ==
    IsMotion(last) => cur.mouse_delta = last.event.delta

\* Two motion events with different deltas were handled in a row and the
\* stored delta is the second one's, not the sum.
C10_Witness ==
    LET n == Len(trace)
    IN  /\ n >= 2
        /\ IsMotion(trace[n - 1])
        /\ IsMotion(trace[n])
        /\ trace[n - 1].event.delta # trace[n].event.delta
        /\ cur.mouse_delta = trace[n].event.delta
        /\ cur.mouse_delta # <<trace[n - 1].event.delta[1] + trace[n].event.delta[1],
                               trace[n - 1].event.delta[2] + trace[n].event.delta[2]>>
\* --------------------------------------------------------------------- C11
\* C11 as stated: a tick that reaches the movement code with W the only
\* movement key held adds velocity = 10 * t to the coefficient of the vector
\* forward and changes nothing else of camera_pos, and a tick with no
\* movement key held leaves camera_pos as it is.
C11_MovesAlongForward ==
    [][AdvanceStep =>
         /\ OnlyDown(input, "W") =>
               camera_pos' = [camera_pos EXCEPT
                                 !.forward = @ + velocity_of(last')]
         /\ NoneDown(input) => camera_pos' = camera_pos]_vars

\* C11, amended: a tick that reaches the movement code with W the only
\* movement key held subtracts velocity = 10 * t from the coefficient of the
\* vector forward (= -rotation.z_axis) and changes nothing else of
\* camera_pos, and a tick with no movement key held, as is the next one after
\* key-up(W), leaves camera_pos as it is.
C11_MovesAgainstForward ==
    [][AdvanceStep =>
         /\ OnlyDown(input, "W") =>
               camera_pos' = [camera_pos EXCEPT
                                 !.forward = @ - velocity_of(last')]
         /\ NoneDown(input) => camera_pos' = camera_pos]_vars

\* W was held at a tick of one time unit, which moved the camera by -10
\* along forward; key-up(W) came, and the tick handled last was run with W
\* released in both generations and left the camera where it was.
C11_Witness ==
    /\ IsAdvance(last)
    /\ camera_pos = [forward |-> 0 - Speed, side |-> 0, up |-> 0,
                     y |-> 3 * One]
    /\ "W" \in DOMAIN cur.keyboard_keycode_state
    /\ ~Down(input, "W")
    /\ "W" \in DOMAIN prev.keyboard_keycode_state
    /\ ~Held(prev.keyboard_keycode_state, "W")

\* --------------------------------------------------------------------- C12
\* C12: a tick that reaches the movement code with two opposite movement
\* keys held leaves the camera position on their axis as it was, whatever
\* the elapsed time: W with S the coefficient of forward, A with D the
\* coefficient of side, E with C the component y.
C12_OppositesCancel ==
    [][AdvanceStep =>
         /\ (Down(input, "W") /\ Down(input, "S")) =>
               camera_pos'.forward = camera_pos.forward
         /\ (Down(input, "A") /\ Down(input, "D")) =>
               camera_pos'.side = camera_pos.side
         /\ (Down(input, "E") /\ Down(input, "C")) =>
               camera_pos'.y = camera_pos.y]_vars

\* --------------------------------------------------------------------- C13
Queries == {"is_keycode_just_pressed", "is_keycode_down"}

\* The calls of one handler on the input manager: the event is recorded
\* first, then come queries only, the movement queries among them, and
\* push_state is the last call and the only one of its kind
QueriesThenOneAdvance(calls) ==
    /\ Len(calls) >= 3
    /\ calls[1] = "handle_event"
    /\ \A i \in 2..(Len(calls) - 1) : calls[i] \in Queries
    /\ \E i \in 2..(Len(calls) - 1) : calls[i] = "is_keycode_down"
    /\ calls[Len(calls)] = "push_state"

\* C13 as stated: every handler of an event other than the tick records the
\* event and calls nothing else on the input manager, and every tick records
\* its event, queries, updates the camera and then runs push_state exactly
\* once, as its last call.
C13_EveryTickAdvances ==
    /\ (last # Setup /\ ~IsTick(last)) => last.calls = <<"handle_event">>
    /\ IsTick(last) => QueriesThenOneAdvance(last.calls)

\* C13, amended: every handler of an event other than the tick records the
\* event and calls nothing else on the input manager.  A tick at which
\* Escape is not just pressed records its event, queries, updates the camera
\* and then runs push_state exactly once, as its last call, so that the
\* manager it leaves is push_state of the manager its queries read.  A tick
\* at which Escape is just pressed requests Exit and returns: it does not run
\* push_state and changes neither the manager nor the camera.
C13_TickOrder ==
    /\ [](/\ (last # Setup /\ ~IsTick(last)) =>
               last.calls = <<"handle_event">>
          /\ IsAdvance(last) => QueriesThenOneAdvance(last.calls)
          /\ IsExitTick(last) =>
               /\ control_flow = "Exit"
               /\ last.calls = <<"handle_event", "is_keycode_just_pressed">>)
    /\ [][IsTick(last') =>
            /\ last'.pushed = ~JustPressed(input, "Escape")
            /\ last'.pushed => input' = push_state(input)
            /\ ~last'.pushed =>
                  (input' = input /\ camera_pos' = camera_pos)]_vars

\* key-down(W) was recorded before a tick of one time unit: the tick's
\* queries read it (the camera moved) and its push_state, run after them,
\* copied it to the previous generation.
C13_Witness ==
    /\ IsAdvance(last)
    /\ last.delta_time = 1
    /\ camera_pos.forward = 0 - Speed
    /\ Held(cur.keyboard_keycode_state, "W")
    /\ Held(prev.keyboard_keycode_state, "W")

\* --------------------------------------------------------------------- C14
\* C14: over every step and for every key code k: is_keycode_down(k) differs
\* before and after the step only if the step handles a keyboard event that
\* carries k; a key that is down stays down over every step but a key-up
\* that carries k (ticks, mouse motion, events for other keys and further
\* key-downs for k included); and after a key-down for a key that is held in
\* the previous generation is_keycode_just_pressed(k) is false.
C14_HeldUntilKeyUp ==
    [][\A k \in KeyCodes :
         /\ Down(input', k) # Down(input, k) => IsKeyFor(last', k)
         /\ (Down(input, k) /\ ~IsKey(last', k, "Released")) =>
               Down(input', k)
         /\ (IsKey(last', k, "Pressed")
                /\ Held(prev.keyboard_keycode_state, k)) =>
               ~JustPressed(input', k)]_vars

\* W is held since before the last push_state and a further key-down(W) has
\* just been handled: W is down and not just pressed.
C14_Witness ==
    /\ IsKey(last, "W", "Pressed")
    /\ Held(prev.keyboard_keycode_state, "W")
    /\ Down(input, "W")
    /\ ~JustPressed(input, "W")

\* --------------------------------------------------------------------- C15
\* v when the key is held in the current generation, 0 when it is not
contribution(self, k, v) ==
    IF Held(self.input_state.keyboard_keycode_state, k) THEN v ELSE 0

\* camera_pos after every movement key held in the current generation of
\* self has acted once with velocity v
acted(self, pos, v) ==
    [forward |-> pos.forward - contribution(self, "W", v)
                             + contribution(self, "S", v),
     side |-> pos.side + contribution(self, "A", v)
                       - contribution(self, "D", v),
     up |-> pos.up,
     y |-> f32_sub(f32_add(pos.y, contribution(self, "E", v)),
                   contribution(self, "C", v))]

\* C15 as stated: a tick requests Exit exactly when
\* is_keycode_just_pressed(Escape) is true at it, and at every tick every
\* movement key that is held in the current generation acts, whatever the
\* previous generation holds.
C15_EveryTickMoves ==
    [][IsTick(last') =>
         /\ (control_flow' = "Exit") = JustPressed(input, "Escape")
         /\ camera_pos' = acted(input, camera_pos, velocity_of(last'))]_vars

\* C15, amended: a tick requests Exit exactly when
\* is_keycode_just_pressed(Escape) is true at it; at every tick that does not
\* request Exit every movement key that is held in the current generation
\* acts, whatever the previous generation holds; a tick that requests Exit
\* moves nothing.
C15_ExitOnEdgeMoveOnLevel ==
    [][IsTick(last') =>
         /\ (control_flow' = "Exit") = JustPressed(input, "Escape")
         /\ control_flow' # "Exit" =>
               camera_pos' = acted(input, camera_pos, velocity_of(last'))
         /\ control_flow' = "Exit" => camera_pos' = camera_pos]_vars

\* key-down(W), then two ticks of one time unit each: at the second one W
\* is held in both generations, so it is not just pressed, and it has acted
\* again.
C15_Witness ==
    /\ Len(trace) = 4
    /\ IsKey(trace[2], "W", "Pressed")
    /\ IsAdvance(trace[3]) /\ trace[3].delta_time = 1
    /\ IsAdvance(trace[4]) /\ trace[4].delta_time = 1
    /\ camera_pos.forward = 0 - 2 * Speed

\* --------------------------------------------------------------------- C16
\* The input manager as the tick's queries leave it: the Escape query and,
\* after it, the six movement queries
after_queries(self, delta_time) ==
    LET forwarded == handle_event(self, [type |-> "MainEventsCleared"])
        escape == is_keycode_just_pressed(forwarded, "Escape")
        moved == move_camera(escape.self, camera_pos,
                             f32_mul(Speed, delta_time))
    IN  [escape |-> escape.self, moved |-> moved.self]

\* C16: in every reachable state the queries of a tick, run on the input
\* manager as it is, leave both of its generations as they are; and no tick
\* and no keyboard event changes camera_pitch or camera_yaw, and a tick
\* changes nothing of the camera but camera_pos.
C16_UpdateChangesPositionOnly ==
    /\ [](\A delta_time \in 0..MaxDt :
            /\ after_queries(input, delta_time).escape = input
            /\ after_queries(input, delta_time).moved = input)
    /\ [][(IsTick(last') \/ last'.event.type = "KeyboardInput") =>
            /\ camera_pitch' = camera_pitch
            /\ camera_yaw' = camera_yaw]_vars

\* A tick with W held has moved the camera; pitch and yaw are those of
\* setup(), and the two generations are the ones push_state left.
C16_Witness ==
    /\ IsAdvance(last)
    /\ last.delta_time = 1
    /\ Held(prev.keyboard_keycode_state, "W")
    /\ camera_pos.forward # 0
    /\ camera_pitch = 55
    /\ camera_yaw = -50
    /\ prev = cur

\* --------------------------------------------------------------------- C17
\* None of the three queries on k answers true
Unobserved(self, k) ==
    /\ ~Down(self, k)
    /\ ~JustPressed(self, k)
    /\ ~JustReleased(self, k)

\* A tick that finds Escape unobserved does not request Exit, and a tick that
\* finds every movement key unobserved leaves camera_pos as it is
UnobservedAtTick ==
    IsTick(last') =>
      /\ Unobserved(input, "Escape") => control_flow' # "Exit"
      /\ (\A k \in MovementKeys : Unobserved(input, k)) =>
            camera_pos' = camera_pos

\* C17 as stated: once a key-down for k and, next, a key-up for k have been
\* handled, none of the three queries on k answers true, and the tick that
\* follows neither requests Exit because of Escape nor moves the camera.
C17_TapNeverObserved ==
    /\ [](\A k \in KeyCodes :
            (last.tap /\ IsKey(last, k, "Released")) => Unobserved(input, k))
    /\ [][UnobservedAtTick]_vars

\* C17, amended: once a key-up for a key k that is not held in the previous
\* generation has been handled (the key-up of a tap that began after the
\* last push_state is one), none of the three queries on k answers true;
\* this stays so over every step that is not a keyboard event for k; and a
\* tick that finds it so neither requests Exit because of Escape nor moves
\* the camera.
C17_TapOfReleasedKey ==
    /\ [](\A k \in KeyCodes :
            (IsKey(last, k, "Released")
               /\ ~Held(prev.keyboard_keycode_state, k)) =>
              Unobserved(input, k))
    /\ [][\A k \in KeyCodes :
            (Unobserved(input, k) /\ ~IsKeyFor(last', k)) =>
              Unobserved(input', k)]_vars
    /\ [][UnobservedAtTick]_vars

\* key-down(Escape) and, next, key-up(Escape) have been handled since the
\* last push_state, from a previous generation that does not hold Escape: no
\* query on Escape answers true and no Exit has been requested.
C17_Witness ==
    /\ last.tap
    /\ IsKey(last, "Escape", "Released")
    /\ ~Held(prev.keyboard_keycode_state, "Escape")
    /\ Unobserved(input, "Escape")
    /\ control_flow # "Exit"

\* --------------------------------------------------------------------- C18
\* C18: in every reachable state and for every key code k,
\* is_keycode_just_pressed(k) and is_keycode_just_released(k) are not both
\* true; and when the call handled last is a tick that ran push_state, both
\* are false for every k.
C18_EdgesExclusive ==
    \A k \in KeyCodes :
      /\ ~(JustPressed(input, k) /\ JustReleased(input, k))
      /\ IsAdvance(last) =>
            (~JustPressed(input, k) /\ ~JustReleased(input, k))

\* The call handled last is a tick that ran push_state: W is down, Escape
\* has a flag and is not down, and no key code has an edge.
C18_Witness ==
    /\ IsAdvance(last)
    /\ Down(input, "W")
    /\ "Escape" \in DOMAIN cur.keyboard_keycode_state
    /\ ~Down(input, "Escape")
    /\ \A k \in KeyCodes : ~JustPressed(input, k) /\ ~JustReleased(input, k)

\* --------------------------------------------------------------------- C19
\* The places of the recorded run at which a keyboard event carries v
events_for(v) == {i \in 1..Len(trace) : IsKeyFor(trace[i], v)}

Max(S) == CHOOSE i \in S : \A j \in S : j <= i

KeyEvent(sc, st, vk) ==
    [type |-> "KeyboardInput",
     input |-> [scancode |-> sc, state |-> st, virtual_keycode |-> vk]]

\* C19: on every recorded run and for every key code v, is_keycode_down(v)
\* is true exactly if some keyboard event carried v and the last one that did
\* was a key-down, whatever the scan codes; and when the run ends with
\* key-down(sc1, v), key-down(sc2, v), key-up(sc1, v) for two scan codes,
\* is_keycode_down(v) is false while the scan-code map holds sc2.
C19_LastEventForKeyCode ==
    \A v \in KeyCodes :
      /\ Down(input, v) =
            /\ events_for(v) # {}
            /\ trace[Max(events_for(v))].event.input.state = "Pressed"
      /\ \A sc1, sc2 \in ScanCodes :
            (/\ sc1 # sc2
             /\ Len(trace) >= 4
             /\ trace[Len(trace) - 2].event = KeyEvent(sc1, "Pressed", v)
             /\ trace[Len(trace) - 1].event = KeyEvent(sc2, "Pressed", v)
             /\ trace[Len(trace)].event = KeyEvent(sc1, "Released", v)) =>
              /\ ~Down(input, v)
              /\ Held(cur.keyboard_scancode_state, sc2)

\* key-down(1, W), key-down(17, W), key-up(1, W): W is not down and scan
\* code 17 is held in the scan-code map.
C19_Witness ==
    /\ Len(trace) = 4
    /\ trace[2].event = KeyEvent(1, "Pressed", "W")
    /\ trace[3].event = KeyEvent(17, "Pressed", "W")
    /\ trace[4].event = KeyEvent(1, "Released", "W")
    /\ ~Down(input, "W")
    /\ Held(cur.keyboard_scancode_state, 17)
    /\ ~Held(cur.keyboard_scancode_state, 1)

\* --------------------------------------------------------------------- C20
\* C20: a tick that reaches the movement code with E the only movement key
\* held adds velocity to the component y of camera_pos, one with C the only
\* movement key held subtracts velocity from it (f32 operations, as all of
\* Vec3A are), and neither changes the coefficient of forward, of side or of
\* up: whatever these three vectors are, that is whatever pitch and yaw are,
\* the components x and z stay as they are.
C20_WorldVerticalAxis ==
    [][AdvanceStep =>
         /\ OnlyDown(input, "E") =>
               camera_pos' = [camera_pos EXCEPT
                                 !.y = f32_add(@, velocity_of(last'))]
         /\ OnlyDown(input, "C") =>
               camera_pos' = [camera_pos EXCEPT
                                 !.y = f32_sub(@, velocity_of(last'))]]_vars

\* key-down(E) and one tick of one time unit: y is 3.0 plus the velocity and
\* the coefficients of forward, side and up are zero.
C20_Witness ==
    /\ IsAdvance(last)
    /\ last.delta_time = 1
    /\ OnlyDown(input, "E")
    /\ camera_pos = [forward |-> 0, side |-> 0, up |-> 0,
                     y |-> 3 * One + Speed]

====
